---- MODULE Spec2Model ----
(***************************************************************************)
(* Model of flagpp (include/flagpp.hpp): the FlagRegistry singleton, the   *)
(* Flag objects it owns, the two reader-writer locks (std::shared_mutex)   *)
(* and the flags:: convenience functions, run by a fixed set of threads.   *)
(* Every public call is split at its lock acquisitions: one step takes the *)
(* lock, the next runs the critical section and releases it on return.     *)
(***************************************************************************)
EXTENDS Integers, Sequences, FiniteSets, TLC

(* ---------------------------- sizes ------------------------------------ *)
\* calls started in one run, over all threads
MaxCalls == 3

Threads == {1, 2}
NoThread == 0
Names == {"a", "b"}
NullPtr == 0

(* ---------------------------- FlagValue -------------------------------- *)
\* std::variant<bool, int, double, std::string>: the alternative held (kind)
\* and the bits of its storage (v).
FlagValue(kind, v) == [kind |-> kind, v |-> v]

Kinds == {"bool", "int", "double", "string"}

NoValue == [kind |-> "none", v |-> 0]

\* std::optional<T>
nullopt == [has |-> FALSE, kind |-> "none", v |-> 0]

some(kind, v) == [has |-> TRUE, kind |-> kind, v |-> v]

\* get<T>() that converts an int to a double
Value_get_Coerce(value, T) ==
  IF value.kind = T \/ (value.kind = "int" /\ T = "double")
  THEN some(T, value.v) ELSE nullopt

\* Value::get<T>()
Value_get(value, T) ==
  IF value.kind = T THEN some(T, value.v) ELSE nullopt

\* operator bool that takes any non-zero storage for true, whatever the kind
Value_bool_Truthy(value) == value.v # 0

\* Value::operator bool()
Value_bool(value) ==
  LET val == Value_get(value, "bool")
  IN  IF val.has THEN val.v # 0 ELSE FALSE

(* ---------------------------- calls ------------------------------------ *)
Op(type, name, value, desc, kind) ==
  [type |-> type, name |-> name, value |-> value, desc |-> desc, kind |-> kind]

NoOp == Op("none", "", NoValue, "", "none")

\* the (default_value, description) pairs handed to define: a C++ value of
\* static type T, T one of the four alternatives (the converting constructor
\* of the variant selects alternative T); "" is the default description
DefineArgs ==
  { << FlagValue("bool", 0), "" >>, << FlagValue("int", 2), "d" >>,
    << FlagValue("string", 3), "d" >> }

DefineOps == { Op("define", n, a[1], a[2], a[1].kind) : n \in Names, a \in DefineArgs }

\* the values handed to update
UpdateArgs ==
  { FlagValue("bool", 0), FlagValue("bool", 1), FlagValue("int", 2), FlagValue("double", 2) }

UpdateOps == { Op("update", n, v, "", v.kind) : n \in Names, v \in UpdateArgs }

GetValueOps == { Op("get_value", n, NoValue, "", k) : n \in Names, k \in Kinds }

NameOps == { Op(ty, n, NoValue, "", "none") : ty \in {"get", "exists", "is_enabled"}, n \in Names }

GetAllOps == { Op("get_all", "", NoValue, "", "none") }

Ops == DefineOps \cup UpdateOps \cup GetValueOps \cup NameOps \cup GetAllOps

\* what a finished call handed back: a handle, a bool, an optional, a vector
NoRet == [ptr |-> NullPtr, bool |-> FALSE, opt |-> nullopt, vec |-> << >>]

(* ---------------------------- state ------------------------------------ *)
VARIABLES
  flags_,    \* FlagRegistry::flags_ : name -> handle of the Flag
  heap,      \* the Flag objects made by make_shared, by handle: name_, value_, description_
  rmutex,    \* FlagRegistry::mutex_ : [w : exclusive owner, r : shared owners]
  fmutex,    \* Flag::mutex_ of every Flag object, by handle
  pc,        \* position of every thread inside its current call
  op,        \* the call every thread is running (or has last finished)
  flag,      \* the local `flag` of update / is_enabled / get_value
  ret,       \* the result of the thread's last finished call
  ncalls,    \* number of calls started so far
  written,   \* history: per Flag object, the default and every update argument handed to Flag::update
  firstDef,  \* history: per name, the arguments of the first define that took the map lock
  lastCall,  \* history: per name, the value of the last finished define/update and whether it stored it
  lastUpdate, \* history: per Flag object, the value of the last finished Flag::update (NoValue: none yet)
  sent,      \* per thread, the caller's 64-bit integer that became the int argument of its define/update
  seen       \* per thread, the results of earlier reads its caller kept (reader_thread's locals)

vars == << flags_, heap, rmutex, fmutex, pc, op, flag, ret, ncalls, written, firstDef, lastCall,
           lastUpdate, sent, seen >>

Unlocked == [w |-> NoThread, r |-> {}]

Init ==
  /\ flags_ = << >>
  /\ heap = << >>
  /\ rmutex = Unlocked
  /\ fmutex = << >>
  /\ pc = [t \in Threads |-> "idle"]
  /\ op = [t \in Threads |-> NoOp]
  /\ flag = [t \in Threads |-> NullPtr]
  /\ ret = [t \in Threads |-> NoRet]
  /\ ncalls = 0
  /\ written = << >>
  /\ firstDef = << >>
  /\ lastCall = << >>
  /\ lastUpdate = << >>
  /\ sent = [t \in Threads |-> << >>]
  /\ seen = [t \in Threads |-> << >>]

(* ---------------------------- std::shared_mutex ------------------------ *)
\* std::unique_lock lock(m) can be taken
CanLock(m) == m.w = NoThread /\ m.r = {}

\* std::shared_lock lock(m) can be taken
CanLockShared(m) == m.w = NoThread

LockedBy(m, t) == [m EXCEPT !.w = t]

SharedBy(m, t) == [m EXCEPT !.r = @ \cup {t}]

Released(m, t) == [w |-> IF m.w = t THEN NoThread ELSE m.w, r |-> m.r \ {t}]

(* ---------------------------- helpers ---------------------------------- *)
\* find that stops at the first entry of the map, whatever its name
find_First(name) ==
  IF DOMAIN flags_ = {} THEN NullPtr ELSE flags_[CHOOSE n \in DOMAIN flags_ : TRUE]

\* flags_.find(name) : the handle stored under name, NullPtr for end()
find(name) == IF name \in DOMAIN flags_ THEN flags_[name] ELSE NullPtr

\* the first position of a call
Entry(type) ==
  CASE type = "define"  -> "define_lock"
    [] type = "exists"  -> "exists_lock"
    [] type = "get_all" -> "get_all_lock"
    [] OTHER            -> "get_lock"

RECURSIVE Perms(_)
\* every order in which the unordered_map may be iterated
Perms(S) ==
  IF S = {} THEN { << >> }
  ELSE UNION { { << x >> \o p : p \in Perms(S \ {x}) } : x \in S }

Return(t, r) ==
  /\ pc' = [pc EXCEPT ![t] = "idle"]
  /\ ret' = [ret EXCEPT ![t] = r]

(* ---------------------------- actions ---------------------------------- *)
\* a thread calls one of the flags:: functions
Call(t, o) ==
  /\ pc[t] = "idle"
  /\ ncalls < MaxCalls
  /\ ncalls' = ncalls + 1
  /\ op' = [op EXCEPT ![t] = o]
  /\ flag' = [flag EXCEPT ![t] = NullPtr]
  /\ ret' = [ret EXCEPT ![t] = NoRet]
  /\ pc' = [pc EXCEPT ![t] = Entry(o.type)]
  /\ UNCHANGED << flags_, heap, rmutex, fmutex, written, firstDef, lastCall, lastUpdate, sent,
               seen >>

\* define under a shared lock
DefineLock_Shared(t) ==
  /\ pc[t] = "define_lock"
  /\ CanLockShared(rmutex)
  /\ rmutex' = SharedBy(rmutex, t)
  /\ pc' = [pc EXCEPT ![t] = "define_find"]
  /\ firstDef' = IF op[t].name \in DOMAIN firstDef THEN firstDef
                 ELSE (op[t].name :> [value |-> op[t].value, desc |-> op[t].desc]) @@ firstDef
  /\ UNCHANGED << flags_, heap, fmutex, op, flag, ret, ncalls, written, lastCall, lastUpdate,
               sent, seen >>

\* FlagRegistry::define : std::unique_lock lock(mutex_)
DefineLock(t) ==
  /\ pc[t] = "define_lock"
  /\ CanLock(rmutex)
  /\ rmutex' = LockedBy(rmutex, t)
  /\ pc' = [pc EXCEPT ![t] = "define_find"]
  /\ firstDef' = IF op[t].name \in DOMAIN firstDef THEN firstDef
                 ELSE (op[t].name :> [value |-> op[t].value, desc |-> op[t].desc]) @@ firstDef
  /\ UNCHANGED << flags_, heap, fmutex, op, flag, ret, ncalls, written, lastCall, lastUpdate,
               sent, seen >>

\* define that gives an existing Flag the description it was called with
DefineFind_ApplyDescription(t) ==
  /\ pc[t] = "define_find"
  /\ LET it == find(op[t].name)
     IN  IF it # NullPtr
         THEN /\ Return(t, [NoRet EXCEPT !.ptr = it])
              /\ heap' = [heap EXCEPT ![it].description = op[t].desc]
              /\ rmutex' = Released(rmutex, t)
              /\ lastCall' = (op[t].name :> [value |-> op[t].value, stored |-> FALSE, sent |-> sent[t]]) @@ lastCall
         ELSE /\ pc' = [pc EXCEPT ![t] = "define_insert"]
              /\ UNCHANGED << heap, rmutex, ret, lastCall >>
  /\ UNCHANGED << flags_, fmutex, op, flag, ncalls, written, firstDef, lastUpdate, sent, seen >>

\* define that sets an existing Flag back to the default value it was called with
DefineFind_Reset(t) ==
  /\ pc[t] = "define_find"
  /\ LET it == find(op[t].name)
     IN  IF it # NullPtr
         THEN /\ Return(t, [NoRet EXCEPT !.ptr = it])
              /\ heap' = [heap EXCEPT ![it].value = op[t].value]
              /\ rmutex' = Released(rmutex, t)
              /\ lastCall' = (op[t].name :> [value |-> op[t].value, stored |-> FALSE, sent |-> sent[t]]) @@ lastCall
         ELSE /\ pc' = [pc EXCEPT ![t] = "define_insert"]
              /\ UNCHANGED << heap, rmutex, ret, lastCall >>
  /\ UNCHANGED << flags_, fmutex, op, flag, ncalls, written, firstDef, lastUpdate, sent, seen >>

\* define that never looks the name up and always inserts
DefineFind_NoLookup(t) ==
  /\ pc[t] = "define_find"
  /\ pc' = [pc EXCEPT ![t] = "define_insert"]
  /\ UNCHANGED << flags_, heap, rmutex, fmutex, op, flag, ret, ncalls, written, firstDef,
               lastCall, lastUpdate, sent, seen >>

\* FlagRegistry::define : it = flags_.find(name); an existing Flag is
\* returned as it is (lock released)
DefineFind(t) ==
  /\ pc[t] = "define_find"
  /\ LET it == find(op[t].name)
     IN  IF it # NullPtr
         THEN /\ Return(t, [NoRet EXCEPT !.ptr = it])
              /\ rmutex' = Released(rmutex, t)
              /\ lastCall' = (op[t].name :> [value |-> op[t].value, stored |-> FALSE, sent |-> sent[t]]) @@ lastCall
         ELSE /\ pc' = [pc EXCEPT ![t] = "define_insert"]
              /\ UNCHANGED << rmutex, ret, lastCall >>
  /\ UNCHANGED << flags_, heap, fmutex, op, flag, ncalls, written, firstDef, lastUpdate, sent,
               seen >>

\* define that assigns a map holding the new entry alone
DefineInsert_Replace(t) ==
  /\ pc[t] = "define_insert"
  /\ LET new == Len(heap) + 1
     IN  /\ heap' = Append(heap, [name |-> op[t].name, value |-> op[t].value,
                                  description |-> op[t].desc])
         /\ fmutex' = Append(fmutex, Unlocked)
         /\ written' = Append(written, {op[t].value})
         /\ flags_' = (op[t].name :> new)
         /\ Return(t, [NoRet EXCEPT !.ptr = new])
  /\ rmutex' = Released(rmutex, t)
  /\ lastCall' = (op[t].name :> [value |-> op[t].value, stored |-> TRUE, sent |-> sent[t]]) @@ lastCall
  /\ lastUpdate' = Append(lastUpdate, NoValue)
  /\ UNCHANGED << op, flag, ncalls, firstDef, sent, seen >>

\* FlagRegistry::define : make_shared<Flag>, flags_[name] = flag, return flag
\* (lock released)
DefineInsert(t) ==
  /\ pc[t] = "define_insert"
  /\ LET new == Len(heap) + 1
     IN  /\ heap' = Append(heap, [name |-> op[t].name, value |-> op[t].value,
                                  description |-> op[t].desc])
         /\ fmutex' = Append(fmutex, Unlocked)
         /\ written' = Append(written, {op[t].value})
         /\ flags_' = (op[t].name :> new) @@ flags_
         /\ Return(t, [NoRet EXCEPT !.ptr = new])
  /\ rmutex' = Released(rmutex, t)
  /\ lastCall' = (op[t].name :> [value |-> op[t].value, stored |-> TRUE, sent |-> sent[t]]) @@ lastCall
  /\ lastUpdate' = Append(lastUpdate, NoValue)
  /\ UNCHANGED << op, flag, ncalls, firstDef, sent, seen >>

\* get that does not wait for the exclusive owner of the map lock
GetLock_NoWait(t) ==
  /\ pc[t] = "get_lock"
  /\ rmutex' = SharedBy(rmutex, t)
  /\ pc' = [pc EXCEPT ![t] = "get_cs"]
  /\ UNCHANGED << flags_, heap, fmutex, op, flag, ret, ncalls, written, firstDef, lastCall,
               lastUpdate, sent, seen >>

\* FlagRegistry::get : std::shared_lock lock(mutex_)
GetLock(t) ==
  /\ pc[t] = "get_lock"
  /\ CanLockShared(rmutex)
  /\ rmutex' = SharedBy(rmutex, t)
  /\ pc' = [pc EXCEPT ![t] = "get_cs"]
  /\ UNCHANGED << flags_, heap, fmutex, op, flag, ret, ncalls, written, firstDef, lastCall,
               lastUpdate, sent, seen >>

\* flags::get : return FlagRegistry::instance().get(name)
get_done(t, f) ==
  /\ Return(t, [NoRet EXCEPT !.ptr = f])
  /\ UNCHANGED << written, lastCall >>

\* update that refuses a value of another kind than the one stored
update_found_SameKindOnly(t, f) ==
  IF f = NullPtr \/ heap[f].value.kind # op[t].value.kind
  THEN /\ Return(t, [NoRet EXCEPT !.bool = FALSE])
       /\ lastCall' = (op[t].name :> [value |-> op[t].value, stored |-> FALSE, sent |-> sent[t]]) @@ lastCall
       /\ UNCHANGED written
  ELSE /\ pc' = [pc EXCEPT ![t] = "update_lock"]
       /\ written' = [written EXCEPT ![f] = @ \cup {op[t].value}]
       /\ UNCHANGED << ret, lastCall >>

\* update that reports success for an unknown name
update_found_AlwaysTrue(t, f) ==
  IF f = NullPtr
  THEN /\ Return(t, [NoRet EXCEPT !.bool = TRUE])
       /\ lastCall' = (op[t].name :> [value |-> op[t].value, stored |-> TRUE, sent |-> sent[t]]) @@ lastCall
       /\ UNCHANGED written
  ELSE /\ pc' = [pc EXCEPT ![t] = "update_lock"]
       /\ written' = [written EXCEPT ![f] = @ \cup {op[t].value}]
       /\ UNCHANGED << ret, lastCall >>

\* FlagRegistry::update after get(name): if (!flag) return false; else
\* flag->update(value) is entered
update_found(t, f) ==
  IF f = NullPtr
  THEN /\ Return(t, [NoRet EXCEPT !.bool = FALSE])
       /\ lastCall' = (op[t].name :> [value |-> op[t].value, stored |-> FALSE, sent |-> sent[t]]) @@ lastCall
       /\ UNCHANGED written
  ELSE /\ pc' = [pc EXCEPT ![t] = "update_lock"]
       /\ written' = [written EXCEPT ![f] = @ \cup {op[t].value}]
       /\ UNCHANGED << ret, lastCall >>

\* flags::is_enabled after get(name): flag ? static_cast<bool>(flag->value()) : false
is_enabled_found(t, f) ==
  /\ IF f = NullPtr
     THEN Return(t, [NoRet EXCEPT !.bool = FALSE])
     ELSE pc' = [pc EXCEPT ![t] = "value_lock"] /\ UNCHANGED ret
  /\ UNCHANGED << written, lastCall >>

\* value-initialised T instead of nullopt for an unknown name
get_value_found_Default(t, f) ==
  /\ IF f = NullPtr
     THEN Return(t, [NoRet EXCEPT !.opt = some(op[t].kind, 0)])
     ELSE pc' = [pc EXCEPT ![t] = "value_lock"] /\ UNCHANGED ret
  /\ UNCHANGED << written, lastCall >>

\* flags::get_value after get(name): if (!flag) return std::nullopt; else
\* flag->value() is entered
get_value_found(t, f) ==
  /\ IF f = NullPtr
     THEN Return(t, [NoRet EXCEPT !.opt = nullopt])
     ELSE pc' = [pc EXCEPT ![t] = "value_lock"] /\ UNCHANGED ret
  /\ UNCHANGED << written, lastCall >>

\* update that keeps the map lock of its lookup while it updates the Flag
GetCS_HoldMapLock(t) ==
  /\ pc[t] = "get_cs"
  /\ rmutex' = IF op[t].type = "update" THEN rmutex ELSE Released(rmutex, t)
  /\ LET f == find(op[t].name)
     IN  /\ flag' = [flag EXCEPT ![t] = f]
         /\ CASE op[t].type = "get"        -> get_done(t, f)
              [] op[t].type = "update"     -> update_found(t, f)
              [] op[t].type = "is_enabled" -> is_enabled_found(t, f)
              [] op[t].type = "get_value"  -> get_value_found(t, f)
  /\ UNCHANGED << flags_, heap, fmutex, op, ncalls, firstDef, lastUpdate, sent, seen >>

\* FlagRegistry::get : find, return the handle or nullptr (lock released)
\* into its caller, which goes on with the handle
GetCS(t) ==
  /\ pc[t] = "get_cs"
  /\ rmutex' = Released(rmutex, t)
  /\ LET f == find(op[t].name)
     IN  /\ flag' = [flag EXCEPT ![t] = f]
         /\ CASE op[t].type = "get"        -> get_done(t, f)
              [] op[t].type = "update"     -> update_found(t, f)
              [] op[t].type = "is_enabled" -> is_enabled_found(t, f)
              [] op[t].type = "get_value"  -> get_value_found(t, f)
  /\ UNCHANGED << flags_, heap, fmutex, op, ncalls, firstDef, lastUpdate, sent, seen >>

\* FlagRegistry::exists : std::shared_lock lock(mutex_)
ExistsLock(t) ==
  /\ pc[t] = "exists_lock"
  /\ CanLockShared(rmutex)
  /\ rmutex' = SharedBy(rmutex, t)
  /\ pc' = [pc EXCEPT ![t] = "exists_cs"]
  /\ UNCHANGED << flags_, heap, fmutex, op, flag, ret, ncalls, written, firstDef, lastCall,
               lastUpdate, sent, seen >>

\* FlagRegistry::exists : return flags_.find(name) != flags_.end()
ExistsCS(t) ==
  /\ pc[t] = "exists_cs"
  /\ rmutex' = Released(rmutex, t)
  /\ Return(t, [NoRet EXCEPT !.bool = (find(op[t].name) # NullPtr)])
  /\ UNCHANGED << flags_, heap, fmutex, op, flag, ncalls, written, firstDef, lastCall,
               lastUpdate, sent, seen >>

\* FlagRegistry::get_all : std::shared_lock lock(mutex_)
GetAllLock(t) ==
  /\ pc[t] = "get_all_lock"
  /\ CanLockShared(rmutex)
  /\ rmutex' = SharedBy(rmutex, t)
  /\ pc' = [pc EXCEPT ![t] = "get_all_cs"]
  /\ UNCHANGED << flags_, heap, fmutex, op, flag, ret, ncalls, written, firstDef, lastCall,
               lastUpdate, sent, seen >>

\* get_all whose loop starts at the second entry
GetAllCS_SkipFirst(t) ==
  /\ pc[t] = "get_all_cs"
  /\ rmutex' = Released(rmutex, t)
  /\ \E order \in Perms(DOMAIN flags_) :
        Return(t, [NoRet EXCEPT !.vec = [i \in 1..(Len(order) - 1) |-> flags_[order[i + 1]]]])
  /\ UNCHANGED << flags_, heap, fmutex, op, flag, ncalls, written, firstDef, lastCall,
               lastUpdate, sent, seen >>

\* FlagRegistry::get_all : push_back every entry, in the map's iteration order
GetAllCS(t) ==
  /\ pc[t] = "get_all_cs"
  /\ rmutex' = Released(rmutex, t)
  /\ \E order \in Perms(DOMAIN flags_) :
        Return(t, [NoRet EXCEPT !.vec = [i \in 1..Len(order) |-> flags_[order[i]]]])
  /\ UNCHANGED << flags_, heap, fmutex, op, flag, ncalls, written, firstDef, lastCall,
               lastUpdate, sent, seen >>

\* Flag::update with one mutex shared by all Flag objects (a static member)
UpdateLock_Static(t) ==
  /\ pc[t] = "update_lock"
  /\ \A f \in DOMAIN fmutex : CanLock(fmutex[f])
  /\ fmutex' = [f \in DOMAIN fmutex |-> LockedBy(fmutex[f], t)]
  /\ pc' = [pc EXCEPT ![t] = "update_store"]
  /\ UNCHANGED << flags_, heap, rmutex, op, flag, ret, ncalls, written, firstDef, lastCall,
               lastUpdate, sent, seen >>

\* Flag::update under a shared lock
UpdateLock_Shared(t) ==
  /\ pc[t] = "update_lock"
  /\ CanLockShared(fmutex[flag[t]])
  /\ fmutex' = [fmutex EXCEPT ![flag[t]] = SharedBy(@, t)]
  /\ pc' = [pc EXCEPT ![t] = "update_store"]
  /\ UNCHANGED << flags_, heap, rmutex, op, flag, ret, ncalls, written, firstDef, lastCall,
               lastUpdate, sent, seen >>

\* Flag::update : std::unique_lock lock(mutex_)
UpdateLock(t) ==
  /\ pc[t] = "update_lock"
  /\ CanLock(fmutex[flag[t]])
  /\ fmutex' = [fmutex EXCEPT ![flag[t]] = LockedBy(@, t)]
  /\ pc' = [pc EXCEPT ![t] = "update_store"]
  /\ UNCHANGED << flags_, heap, rmutex, op, flag, ret, ncalls, written, firstDef, lastCall,
               lastUpdate, sent, seen >>

\* Flag::update with the value held in one place for all Flag objects (a
\* static member)
UpdateStore_AllFlags(t) ==
  /\ pc[t] = "update_store"
  /\ heap' = [f \in DOMAIN heap |-> [heap[f] EXCEPT !.value.v = op[t].value.v]]
  /\ pc' = [pc EXCEPT ![t] = "update_index"]
  /\ UNCHANGED << flags_, rmutex, fmutex, op, flag, ret, ncalls, written, firstDef, lastCall,
               lastUpdate, sent, seen >>

\* Flag::update that leaves the stored payload as it was
UpdateStore_Skip(t) ==
  /\ pc[t] = "update_store"
  /\ pc' = [pc EXCEPT ![t] = "update_index"]
  /\ UNCHANGED << flags_, heap, rmutex, fmutex, op, flag, ret, ncalls, written, firstDef,
               lastCall, lastUpdate, sent, seen >>

\* Flag::update : value_ = FlagValue(new_value), the storage of the variant
UpdateStore(t) ==
  /\ pc[t] = "update_store"
  /\ heap' = [heap EXCEPT ![flag[t]].value.v = op[t].value.v]
  /\ pc' = [pc EXCEPT ![t] = "update_index"]
  /\ UNCHANGED << flags_, rmutex, fmutex, op, flag, ret, ncalls, written, firstDef, lastCall,
               lastUpdate, sent, seen >>

\* FlagRegistry::update that falls through to return false after
\* flag->update(value)
UpdateIndex_ReturnsFalse(t) ==
  /\ pc[t] = "update_index"
  /\ heap' = [heap EXCEPT ![flag[t]].value.kind = op[t].value.kind]
  /\ fmutex' = [fmutex EXCEPT ![flag[t]] = Released(@, t)]
  /\ Return(t, [NoRet EXCEPT !.bool = FALSE])
  /\ lastCall' = (op[t].name :> [value |-> op[t].value, stored |-> TRUE, sent |-> sent[t]]) @@ lastCall
  /\ lastUpdate' = [lastUpdate EXCEPT ![flag[t]] = op[t].value]
  /\ UNCHANGED << flags_, rmutex, op, flag, ncalls, written, firstDef, sent, seen >>

\* update that assigns the storage and leaves the alternative as it was
UpdateIndex_KeepKind(t) ==
  /\ pc[t] = "update_index"
  /\ fmutex' = [fmutex EXCEPT ![flag[t]] = Released(@, t)]
  /\ Return(t, [NoRet EXCEPT !.bool = TRUE])
  /\ lastCall' = (op[t].name :> [value |-> op[t].value, stored |-> TRUE, sent |-> sent[t]]) @@ lastCall
  /\ lastUpdate' = [lastUpdate EXCEPT ![flag[t]] = op[t].value]
  /\ UNCHANGED << flags_, heap, rmutex, op, flag, ncalls, written, firstDef, sent, seen >>

\* Flag::update : value_ = FlagValue(new_value), the index of the variant;
\* the lock is released and FlagRegistry::update returns true
UpdateIndex(t) ==
  /\ pc[t] = "update_index"
  /\ heap' = [heap EXCEPT ![flag[t]].value.kind = op[t].value.kind]
  /\ fmutex' = [fmutex EXCEPT ![flag[t]] = Released(@, t)]
  /\ Return(t, [NoRet EXCEPT !.bool = TRUE])
  /\ lastCall' = (op[t].name :> [value |-> op[t].value, stored |-> TRUE, sent |-> sent[t]]) @@ lastCall
  /\ lastUpdate' = [lastUpdate EXCEPT ![flag[t]] = op[t].value]
  /\ UNCHANGED << flags_, rmutex, op, flag, ncalls, written, firstDef, sent, seen >>

\* Flag::value without the lock
ValueLock_NoLock(t) ==
  /\ pc[t] = "value_lock"
  /\ pc' = [pc EXCEPT ![t] = "value_cs"]
  /\ UNCHANGED << flags_, heap, rmutex, fmutex, op, flag, ret, ncalls, written, firstDef,
               lastCall, lastUpdate, sent, seen >>

\* Flag::value : std::shared_lock lock(mutex_)
ValueLock(t) ==
  /\ pc[t] = "value_lock"
  /\ CanLockShared(fmutex[flag[t]])
  /\ fmutex' = [fmutex EXCEPT ![flag[t]] = SharedBy(@, t)]
  /\ pc' = [pc EXCEPT ![t] = "value_cs"]
  /\ UNCHANGED << flags_, heap, rmutex, op, flag, ret, ncalls, written, firstDef, lastCall,
               lastUpdate, sent, seen >>

\* Flag::value : return Value(value_) (lock released), converted by the
\* caller: static_cast<bool> in is_enabled, get<T>() in get_value<T>
ValueCS(t) ==
  /\ pc[t] = "value_cs"
  /\ fmutex' = [fmutex EXCEPT ![flag[t]] = Released(@, t)]
  /\ LET value == heap[flag[t]].value
     IN  IF op[t].type = "is_enabled"
         THEN Return(t, [NoRet EXCEPT !.bool = Value_bool(value)])
         ELSE Return(t, [NoRet EXCEPT !.opt = Value_get(value, op[t].kind)])
  /\ UNCHANGED << flags_, heap, rmutex, op, flag, ncalls, written, firstDef, lastCall,
               lastUpdate, sent, seen >>

Step(t) ==
  \/ \E o \in Ops : Call(t, o)
  \/ DefineLock(t)
  \/ DefineFind(t)
  \/ DefineInsert(t)
  \/ GetLock(t)
  \/ GetCS(t)
  \/ ExistsLock(t)
  \/ ExistsCS(t)
  \/ GetAllLock(t)
  \/ GetAllCS(t)
  \/ UpdateLock(t)
  \/ UpdateStore(t)
  \/ UpdateIndex(t)
  \/ ValueLock(t)
  \/ ValueCS(t)

Next == \E t \in Threads : Step(t)

Spec == Init /\ [][Next]_vars

(* ---------------------------- properties ------------------------------- *)
\* thread t returns from a call of the given type in this step
Returns(t, type) == op[t].type = type /\ pc[t] # "idle" /\ pc'[t] = "idle"

\* C1: define returns the handle stored under its name; on a name that is
\* already defined it changes neither the map nor any Flag (value and
\* description stay those of the first define) and returns the existing
\* handle; on a new name the Flag it returns holds its value and description.
C1_IdempotentDefine ==
  [][\A t \in Threads : Returns(t, "define") =>
       LET n == op[t].name
       IN  /\ n \in DOMAIN flags_'
           /\ ret'[t].ptr = flags_'[n]
           /\ ret'[t].ptr # NullPtr
           /\ IF n \in DOMAIN flags_
              THEN flags_' = flags_ /\ heap' = heap /\ ret'[t].ptr = flags_[n]
              ELSE /\ heap'[ret'[t].ptr].value = op[t].value
                   /\ heap'[ret'[t].ptr].description = op[t].desc]_vars

\* two finished defines of one name with different arguments: same handle,
\* the Flag holds the first one's value and description
C1_Witness ==
  \E t, u \in Threads :
    /\ t # u /\ pc[t] = "idle" /\ pc[u] = "idle"
    /\ op[t].type = "define" /\ op[u].type = "define" /\ op[t].name = op[u].name
    /\ op[t].value # op[u].value /\ op[t].desc # op[u].desc
    /\ ret[t].ptr = ret[u].ptr /\ ret[t].ptr # NullPtr
    /\ heap[ret[t].ptr].value = op[t].value
    /\ heap[ret[t].ptr].description = op[t].desc

\* C2 as stated: once a define(n, v) or an update(n, v) has finished (and no
\* later define or update of n has), get_value<K>(n), K the kind of v,
\* returns v.
C2_RoundTrip_AsStated ==
  [][\A t \in Threads : Returns(t, "get_value") =>
       LET n == op[t].name
       IN  (n \in DOMAIN lastCall /\ lastCall[n].value.kind = op[t].kind)
             => ret'[t].opt = some(op[t].kind, lastCall[n].value.v)]_vars

\* C2 amended: when the last finished define or update of n is a define(n, v)
\* that created the Flag or an update(n, v) that returned true,
\* get_value<K>(n), K the kind of v, returns v.
C2_RoundTrip ==
  [][\A t \in Threads : Returns(t, "get_value") =>
       LET n == op[t].name
       IN  (n \in DOMAIN lastCall /\ lastCall[n].stored /\ lastCall[n].value.kind = op[t].kind)
             => ret'[t].opt = some(op[t].kind, lastCall[n].value.v)]_vars

\* a get_value that returned the value a finished update stored over the
\* default of the define
C2_Witness ==
  \E t \in Threads :
    /\ pc[t] = "idle" /\ op[t].type = "get_value" /\ ret[t].opt.has
    /\ op[t].name \in DOMAIN lastCall /\ lastCall[op[t].name].stored
    /\ lastCall[op[t].name].value = FlagValue(ret[t].opt.kind, ret[t].opt.v)
    /\ lastCall[op[t].name].value # firstDef[op[t].name].value

\* C3: get_value<J>(n) on a defined name returns a value exactly when J is
\* the kind the Flag stores at that moment, and empty for every other kind.
C3_KindIsolation ==
  [][\A t \in Threads : (Returns(t, "get_value") /\ op[t].name \in DOMAIN flags_) =>
       LET stored == heap[flags_[op[t].name]].value
       IN  /\ ret'[t].opt.has = (stored.kind = op[t].kind)
           /\ ret'[t].opt.has => ret'[t].opt.kind = stored.kind]_vars

\* an int Flag read as double: empty
C3_Witness ==
  \E t \in Threads :
    /\ pc[t] = "idle" /\ op[t].type = "get_value" /\ op[t].kind = "double"
    /\ op[t].name \in DOMAIN flags_
    /\ heap[flags_[op[t].name]].value.kind = "int"
    /\ ret[t].opt = nullopt

\* thread t takes a step of the call it is running
Steps(t) == pc'[t] # pc[t] /\ pc[t] # "idle"

\* C4: update(n, v) on a name that is not defined returns false and leaves
\* the key set and every Flag as they were.
C4_UpdateUnknown ==
  [][\A t \in Threads :
       (Steps(t) /\ op[t].type = "update" /\ op[t].name \notin DOMAIN flags_) =>
          /\ flags_' = flags_ /\ heap' = heap
          /\ pc[t] = "get_cs" => (pc'[t] = "idle" /\ ret'[t].bool = FALSE)]_vars

\* a finished update of an unknown name: false, nothing created
C4_Witness ==
  \E t \in Threads :
    /\ pc[t] = "idle" /\ op[t].type = "update" /\ ret[t].bool = FALSE
    /\ op[t].name \notin DOMAIN flags_
    /\ flags_ # << >>

\* C5: on a name that is not defined get returns the null handle, exists
\* false and get_value<T> empty; the call ends there, no Flag is ever
\* reached through a null handle, and the registry is left unchanged.
C5_UnknownNameSafe ==
  [][\A t \in Threads :
       /\ (Steps(t) /\ op[t].type \in {"get", "exists", "get_value"}
              /\ op[t].name \notin DOMAIN flags_) =>
            /\ flags_' = flags_ /\ heap' = heap
            /\ pc[t] \in {"get_cs", "exists_cs"} =>
                 /\ pc'[t] = "idle"
                 /\ op[t].type = "get" => ret'[t].ptr = NullPtr
                 /\ op[t].type = "exists" => ret'[t].bool = FALSE
                 /\ op[t].type = "get_value" => ret'[t].opt = nullopt
       /\ pc'[t] \in {"value_lock", "value_cs", "update_lock", "update_store", "update_index"}
            => flag'[t] \in DOMAIN heap']_vars

\* get_value and exists (or get) both finished on an undefined name
C5_Witness ==
  \E t, u \in Threads :
    /\ t # u /\ pc[t] = "idle" /\ pc[u] = "idle"
    /\ op[t].type = "get_value" /\ op[t].name \notin DOMAIN flags_ /\ ret[t].opt = nullopt
    /\ op[u].type \in {"get", "exists"} /\ op[u].name \notin DOMAIN flags_
    /\ ret[u].ptr = NullPtr /\ ret[u].bool = FALSE

\* C6: is_enabled(n) returns true exactly when n is defined and its Flag
\* stores the boolean true at the moment of the read.
C6_IsEnabled ==
  [][\A t \in Threads : Returns(t, "is_enabled") =>
       LET n == op[t].name
       IN  ret'[t].bool = (n \in DOMAIN flags_ /\ heap[flags_[n]].value = FlagValue("bool", 1))]_vars

\* is_enabled returned true on a Flag that was defined false and updated to true
C6_Witness ==
  \E t \in Threads :
    /\ pc[t] = "idle" /\ op[t].type = "is_enabled" /\ ret[t].bool = TRUE
    /\ op[t].name \in DOMAIN flags_
    /\ heap[flags_[op[t].name]].value = FlagValue("bool", 1)
    /\ firstDef[op[t].name].value = FlagValue("bool", 0)

\* C7: every value a read hands back (the optional of get_value, the true
\* of is_enabled) is the default of the define or the argument of an update
\* of that Flag that had started: never a mix of two writes.
C7_WholeValues ==
  \A t \in Threads :
    (pc[t] = "idle" /\ flag[t] # NullPtr) =>
      /\ (op[t].type = "get_value" /\ ret[t].opt.has)
            => FlagValue(ret[t].opt.kind, ret[t].opt.v) \in written[flag[t]]
      /\ (op[t].type = "is_enabled" /\ ret[t].bool)
            => FlagValue("bool", 1) \in written[flag[t]]

\* a reader got the argument of another thread's update, not the default
C7_Witness ==
  \E t, u \in Threads :
    /\ t # u /\ pc[t] = "idle" /\ op[t].type = "get_value" /\ ret[t].opt.has
    /\ op[u].type = "update" /\ flag[u] = flag[t]
    /\ op[u].value = FlagValue(ret[t].opt.kind, ret[t].opt.v)
    /\ firstDef[op[t].name].value # op[u].value

HoldsMap(t) == rmutex.w = t \/ t \in rmutex.r

HoldsFlag(t) == \E f \in DOMAIN fmutex : fmutex[f].w = t \/ t \in fmutex[f].r

\* the steps of a running call
Proceed(t) ==
  \/ DefineLock(t) \/ DefineFind(t) \/ DefineInsert(t)
  \/ GetLock(t) \/ GetCS(t)
  \/ ExistsLock(t) \/ ExistsCS(t)
  \/ GetAllLock(t) \/ GetAllCS(t)
  \/ UpdateLock(t) \/ UpdateStore(t) \/ UpdateIndex(t)
  \/ ValueLock(t) \/ ValueCS(t)

\* C8: no thread holds the map lock while it waits for or holds a Flag's
\* lock, and whenever some call is unfinished, some thread with an
\* unfinished call can take a step.
C8_NoDeadlock ==
  /\ \A t \in Threads :
       HoldsMap(t) => (~HoldsFlag(t) /\ pc[t] \notin {"update_lock", "value_lock"})
  /\ (\E t \in Threads : pc[t] # "idle")
       => \E t \in Threads : pc[t] # "idle" /\ ENABLED Proceed(t)

\* one thread writes a Flag under its lock while the other holds the map lock
C8_Witness ==
  \E t, u \in Threads :
    /\ pc[t] \in {"update_store", "update_index"} /\ fmutex[flag[t]].w = t
    /\ HoldsMap(u) /\ ~HoldsMap(t)

InUpdate(t, f) == pc[t] \in {"update_store", "update_index"} /\ flag[t] = f

InValue(t, f) == pc[t] = "value_cs" /\ flag[t] = f

\* C9: while a thread is inside Flag::update of a Flag, no other thread is
\* inside value() or update() of the same Flag.
C9_WriterExclusion ==
  \A f \in DOMAIN heap : \A t, u \in Threads :
    (t # u /\ InUpdate(t, f)) => (~InUpdate(u, f) /\ ~InValue(u, f))

\* an update is inside its critical section and the other thread waits for
\* the same Flag
C9_Witness ==
  \E t, u \in Threads :
    /\ InUpdate(t, flag[t])
    /\ pc[u] \in {"value_lock", "update_lock"} /\ flag[u] = flag[t]

\* two value() calls inside their critical sections on the same Flag
C9_SharedReaders ==
  \E t, u \in Threads : t # u /\ flag[t] # NullPtr /\ InValue(t, flag[t]) /\ InValue(u, flag[t])

\* C10: no two Flag objects carry the same name; every name in the map leads
\* to the one Flag of that name, whose description (and value, until an
\* update is started) is that of the first define that took the map lock;
\* every finished define returned that Flag.
C10_OneFlagPerName ==
  /\ \A i, j \in DOMAIN heap : heap[i].name = heap[j].name => i = j
  /\ \A n \in DOMAIN flags_ :
       /\ flags_[n] \in DOMAIN heap
       /\ heap[flags_[n]].name = n
       /\ n \in DOMAIN firstDef
       /\ heap[flags_[n]].description = firstDef[n].desc
       /\ written[flags_[n]] = {firstDef[n].value} => heap[flags_[n]].value = firstDef[n].value
  /\ \A t \in Threads :
       (pc[t] = "idle" /\ op[t].type = "define")
          => (op[t].name \in DOMAIN flags_ /\ ret[t].ptr = flags_[op[t].name])

\* two finished defines of one name with different values: one Flag exists,
\* both got its handle, and it is the Flag of the define that locked first
C10_Witness ==
  \E t, u \in Threads :
    /\ t # u /\ pc[t] = "idle" /\ pc[u] = "idle"
    /\ op[t].type = "define" /\ op[u].type = "define"
    /\ op[t].name = op[u].name /\ op[t].value # op[u].value
    /\ Len(heap) = 1
    /\ ret[t].ptr = flags_[op[t].name] /\ ret[u].ptr = flags_[op[t].name]
    /\ firstDef[op[t].name] = [value |-> op[t].value, desc |-> op[t].desc]
    /\ heap[flags_[op[t].name]].value = op[t].value

\* C11: the vector get_all returns holds one handle per name that is in the
\* map while get_all holds the map lock: as many handles as names, no handle
\* twice, every handle a constructed Flag, and the names of the handles are
\* exactly the names of the map (in any order).
C11_Snapshot ==
  [][\A t \in Threads :
       Returns(t, "get_all") =>
         LET vec == ret'[t].vec
         IN  /\ Len(vec) = Cardinality(DOMAIN flags_)
             /\ \A i, j \in DOMAIN vec : vec[i] = vec[j] => i = j
             /\ \A i \in DOMAIN vec : vec[i] \in DOMAIN heap
             /\ {heap[vec[i]].name : i \in DOMAIN vec} = DOMAIN flags_]_vars

\* a finished get_all that returned the handles of two flags
C11_Witness ==
  \E t \in Threads :
    /\ pc[t] = "idle" /\ op[t].type = "get_all"
    /\ Len(ret[t].vec) = 2
    /\ {heap[ret[t].vec[i]].name : i \in 1..2} = Names

\* C12: a read of a Flag's value that holds the Flag's lock after an update
\* of that Flag has finished returns the value of the last finished update
\* of the Flag, as get_value<K> and is_enabled convert it: never an older
\* value.
C12_WriteVisibility ==
  [][\A t \in Threads :
       (pc[t] = "value_cs" /\ pc'[t] = "idle" /\ lastUpdate[flag[t]] # NoValue) =>
         LET v == lastUpdate[flag[t]]
         IN  /\ op[t].type = "get_value" =>
                   ret'[t].opt = IF v.kind = op[t].kind THEN some(v.kind, v.v) ELSE nullopt
             /\ op[t].type = "is_enabled" =>
                   ret'[t].bool = (v = FlagValue("bool", 1))]_vars

\* one thread made all three calls, define, update(n, v) and get_value of
\* n, and its read returned v, which is not the value n was defined with
C12_Witness ==
  \E t, u \in Threads :
    /\ t # u /\ op[u] = NoOp /\ ncalls = 3
    /\ pc[t] = "idle" /\ op[t].type = "get_value"
    /\ op[t].name \in DOMAIN flags_
    /\ ret[t].opt.has
    /\ lastUpdate[flags_[op[t].name]] = FlagValue(op[t].kind, ret[t].opt.v)
    /\ firstDef[op[t].name].value # lastUpdate[flags_[op[t].name]]

\* C13: update(n, v) of a name that is in the map is never refused, whatever
\* the kind of v and the kind held: its lookup goes on to Flag::update, and
\* when it returns it returns true and the Flag holds v whole, so that a read
\* of v's kind gives v and a read of any other kind (the kind n was defined
\* with, when it differs) gives empty.
C13_KindDrift ==
  [][\A t \in Threads :
       /\ (pc[t] = "get_cs" /\ op[t].type = "update" /\ op[t].name \in DOMAIN flags_
              /\ pc'[t] # pc[t])
            => pc'[t] = "update_lock"
       /\ (Returns(t, "update") /\ flag[t] # NullPtr) =>
            LET v == op[t].value
                now == heap'[flag[t]].value
            IN  /\ ret'[t].bool = TRUE
                /\ now = v
                /\ \A K \in Kinds :
                      Value_get(now, K) = IF K = v.kind THEN some(K, v.v) ELSE nullopt]_vars

\* a finished update that returned true and left a value of another kind
\* than the one the flag was defined with
C13_Witness ==
  \E t \in Threads :
    /\ pc[t] = "idle" /\ op[t].type = "update" /\ ret[t].bool
    /\ op[t].name \in DOMAIN flags_
    /\ heap[flags_[op[t].name]].value = op[t].value
    /\ firstDef[op[t].name].value.kind # op[t].value.kind
    /\ Value_get(heap[flags_[op[t].name]].value, firstDef[op[t].name].value.kind) = nullopt

\* C14: no step changes the name or the description of a Flag object or
\* frees one; every name of the map leads to a Flag of that name; and the
\* define that constructs a Flag gives it the name and the description it was
\* called with. (Hence at all times every Flag has the name and description
\* of the define that created it, and is stored under that name.)
C14_NameDescriptionFixed ==
  [][/\ \A f \in DOMAIN heap :
          /\ f \in DOMAIN heap'
          /\ heap'[f].name = heap[f].name
          /\ heap'[f].description = heap[f].description
     /\ \A n \in DOMAIN flags_' :
          flags_'[n] \in DOMAIN heap' /\ heap'[flags_'[n]].name = n
     /\ \A t \in Threads :
          (pc[t] = "define_insert" /\ pc'[t] = "idle") =>
             /\ ret'[t].ptr \notin DOMAIN heap
             /\ flags_'[op[t].name] = ret'[t].ptr
             /\ heap'[ret'[t].ptr].name = op[t].name
             /\ heap'[ret'[t].ptr].description = op[t].desc]_vars

\* a flag that was updated and then defined again with another description:
\* it still has the description (and the name) of its first define
C14_Witness ==
  \E t \in Threads :
    /\ pc[t] = "idle" /\ op[t].type = "define" /\ ncalls = 3
    /\ op[t].name \in DOMAIN flags_
    /\ LET f == heap[flags_[op[t].name]]
       IN  /\ f.name = op[t].name
           /\ f.description # op[t].desc
           /\ f.description = firstDef[op[t].name].desc
           /\ lastUpdate[flags_[op[t].name]] = f.value
           /\ f.value # firstDef[op[t].name].value

(* ---------------------------- readers that keep reading ---------------- *)
\* thread_safety.cpp: a writer thread next to reader threads that call again
\* and again, with no bound on the number of calls
LiveThreads == {1, 2, 3}

Writer == 1

LiveInit ==
  /\ flags_ = << >>
  /\ heap = << >>
  /\ rmutex = Unlocked
  /\ fmutex = << >>
  /\ pc = [t \in LiveThreads |-> "idle"]
  /\ op = [t \in LiveThreads |-> NoOp]
  /\ flag = [t \in LiveThreads |-> NullPtr]
  /\ ret = [t \in LiveThreads |-> NoRet]
  /\ ncalls = 0
  /\ written = << >>
  /\ firstDef = << >>
  /\ lastCall = << >>
  /\ lastUpdate = << >>
  /\ sent = [t \in LiveThreads |-> << >>]
  /\ seen = [t \in LiveThreads |-> << >>]

\* the writer defines and updates, the other threads read
LiveOps(t) ==
  IF t = Writer
  THEN { Op("define", "a", FlagValue("bool", 0), "", "bool"),
         Op("define", "b", FlagValue("int", 2), "d", "int"),
         Op("update", "a", FlagValue("bool", 1), "", "bool") }
  ELSE { Op("get_value", "a", NoValue, "", "bool"),
         Op("exists", "a", NoValue, "", "none"),
         Op("get_all", "", NoValue, "", "none") }

\* a thread calls one of the flags:: functions (calls are not counted)
LiveCall(t, o) ==
  /\ pc[t] = "idle"
  /\ op' = [op EXCEPT ![t] = o]
  /\ flag' = [flag EXCEPT ![t] = NullPtr]
  /\ ret' = [ret EXCEPT ![t] = NoRet]
  /\ pc' = [pc EXCEPT ![t] = Entry(o.type)]
  /\ UNCHANGED << flags_, heap, rmutex, fmutex, ncalls, written, firstDef, lastCall,
               lastUpdate, sent, seen >>

LiveNext ==
  \E t \in LiveThreads :
    \/ \E o \in LiveOps(t) : LiveCall(t, o)
    \/ Proceed(t)

\* Scheduling: a thread that is inside a call and can take its next step
\* again and again does take it (strong fairness, which also hands a free
\* lock to a thread that keeps finding it free); no thread has to start a
\* call. std::shared_mutex gives a waiting writer no priority over arriving
\* readers, so no further condition holds.
LiveSpec ==
  LiveInit /\ [][LiveNext]_vars /\ \A t \in LiveThreads : SF_vars(Proceed(t))

\* C15: every started define and every started update finishes, readers or
\* no readers.
C15_WritersFinish ==
  \A t \in LiveThreads :
    (pc[t] # "idle" /\ op[t].type \in {"define", "update"}) ~> (pc[t] = "idle")

(* ---------------------------- integers wider than int ------------------ *)
\* The int alternative of FlagValue: `int`, 32 bits on the mainstream ABIs.
IntBits == 32

\* An integer is written as its two's complement digits in base 65536, least
\* significant first: 4 digits for a 64-bit integer, IntBits / 16 for an int.
LimbBase == 256 * 256

IntLimbs == IntBits \div 16

\* sign digit of a two's complement digit sequence
SignLimb(x) == IF x[Len(x)] >= LimbBase \div 2 THEN LimbBase - 1 ELSE 0

\* conversion that keeps the low 16 bits only
to_int_Short(x) == SubSeq(x, 1, 1)

\* the conversion of a 64-bit integer to the parameter type int of
\* define<int> / update<int>: the low IntBits bits are kept
to_int(x) == SubSeq(x, 1, IntLimbs)

\* the conversion of the int read back to the caller's 64-bit integer
to_int64(i) == i \o [k \in 1..(4 - Len(i)) |-> SignLimb(i)]

\* x is a value of int: INT_MIN <= x <= INT_MAX
InIntRange(x) == \A k \in (IntLimbs + 1)..4 : x[k] = SignLimb(SubSeq(x, 1, IntLimbs))

\* 64-bit integers a caller stores: 2, INT_MAX, INT_MIN, INT_MAX + 1,
\* 2^32 + 2, INT64_MAX
WideInts ==
  { << 2, 0, 0, 0 >>, << LimbBase - 1, LimbBase \div 2 - 1, 0, 0 >>,
    << 0, LimbBase \div 2, LimbBase - 1, LimbBase - 1 >>, << 0, LimbBase \div 2, 0, 0 >>,
    << 2, 0, 1, 0 >>, << LimbBase - 1, LimbBase - 1, LimbBase - 1, LimbBase \div 2 - 1 >> }

\* a thread calls define<int>("a", x) or update<int>("a", x) with a 64-bit
\* integer x of its own
WideCall(t, type, x) ==
  /\ pc[t] = "idle"
  /\ ncalls < MaxCalls
  /\ ncalls' = ncalls + 1
  /\ op' = [op EXCEPT ![t] = Op(type, "a", FlagValue("int", to_int(x)), "", "int")]
  /\ sent' = [sent EXCEPT ![t] = x]
  /\ flag' = [flag EXCEPT ![t] = NullPtr]
  /\ ret' = [ret EXCEPT ![t] = NoRet]
  /\ pc' = [pc EXCEPT ![t] = Entry(type)]
  /\ UNCHANGED << flags_, heap, rmutex, fmutex, written, firstDef, lastCall, lastUpdate, seen >>

WideNext ==
  \E t \in Threads :
    \/ \E type \in {"define", "update"}, x \in WideInts : WideCall(t, type, x)
    \/ Call(t, Op("get_value", "a", NoValue, "", "int"))
    \/ DefineLock(t) \/ DefineFind(t) \/ DefineInsert(t)
    \/ GetLock(t) \/ GetCS(t)
    \/ UpdateLock(t) \/ UpdateStore(t) \/ UpdateIndex(t)
    \/ ValueLock(t) \/ ValueCS(t)

WideSpec == Init /\ [][WideNext]_vars

\* C16 as stated: whenever the last finished define or update of n stored
\* the caller's 64-bit integer v, get_value<int>(n) returns v.
C16_Int64RoundTrip_AsStated ==
  [][\A t \in Threads :
       (/\ Returns(t, "get_value") /\ op[t].kind = "int"
        /\ op[t].name \in DOMAIN lastCall
        /\ lastCall[op[t].name].stored
        /\ lastCall[op[t].name].sent # << >>)
       => (ret'[t].opt.has /\ to_int64(ret'[t].opt.v) = lastCall[op[t].name].sent)]_vars

\* C16: whenever the last finished define or update of n stored the
\* caller's integer v and v is a value of int (INT_MIN <= v <= INT_MAX),
\* get_value<int>(n) returns v.
C16_IntRoundTrip ==
  [][\A t \in Threads :
       (/\ Returns(t, "get_value") /\ op[t].kind = "int"
        /\ op[t].name \in DOMAIN lastCall
        /\ lastCall[op[t].name].stored
        /\ lastCall[op[t].name].sent # << >>
        /\ InIntRange(lastCall[op[t].name].sent))
       => (ret'[t].opt.has /\ to_int64(ret'[t].opt.v) = lastCall[op[t].name].sent)]_vars

\* INT_MIN was stored by an update and read back unchanged
C16_Witness ==
  \E t \in Threads :
    /\ pc[t] = "idle" /\ op[t].type = "get_value"
    /\ "a" \in DOMAIN lastCall /\ lastCall["a"].stored
    /\ lastCall["a"].sent = << 0, LimbBase \div 2, LimbBase - 1, LimbBase - 1 >>
    /\ lastUpdate[flags_["a"]] # NoValue
    /\ ret[t].opt.has /\ to_int64(ret[t].opt.v) = lastCall["a"].sent

(* ---------------------------- two flags, one writer, readers ----------- *)
\* thread_safety.cpp: the flags are defined first, then a writer updates
\* one flag after the other while readers read one flag after the other.
\* Thread Writer runs main's defines and then the writer's updates.
PairThreads == {1, 2, 3, 4, 5}

OldA == FlagValue("bool", 0)

NewA == FlagValue("bool", 1)

OldB == FlagValue("int", 2)

NewB == FlagValue("int", 3)

WriterScript ==
  << Op("define", "a", OldA, "d", "bool"), Op("define", "b", OldB, "d", "int"),
     Op("update", "a", NewA, "", "bool"), Op("update", "b", NewB, "", "int") >>

ReaderScript ==
  << Op("get_value", "a", NoValue, "", "bool"), Op("get_value", "b", NoValue, "", "int") >>

PairInit ==
  /\ flags_ = << >>
  /\ heap = << >>
  /\ rmutex = Unlocked
  /\ fmutex = << >>
  /\ pc = [t \in PairThreads |-> "idle"]
  /\ op = [t \in PairThreads |-> NoOp]
  /\ flag = [t \in PairThreads |-> NullPtr]
  /\ ret = [t \in PairThreads |-> NoRet]
  /\ ncalls = 0
  /\ written = << >>
  /\ firstDef = << >>
  /\ lastCall = << >>
  /\ lastUpdate = << >>
  /\ sent = [t \in PairThreads |-> << >>]
  /\ seen = [t \in PairThreads |-> << >>]

\* the threads are started after main's last define has returned
ThreadsStarted == pc[Writer] = "idle" /\ op[Writer] \in {WriterScript[i] : i \in 2..4}

\* the calls of the thread's script that come after the call it made last
NextCalls(t) ==
  LET script == IF t = Writer THEN WriterScript ELSE ReaderScript
  IN  { script[i] : i \in { j \in DOMAIN script : IF j = 1 THEN op[t] = NoOp
                                                   ELSE op[t] = script[j - 1] } }

\* a thread makes the next call of its script; a reader keeps the result of
\* the read it has just finished
PairCall(t, o) ==
  /\ pc[t] = "idle"
  /\ t # Writer => ThreadsStarted
  /\ op' = [op EXCEPT ![t] = o]
  /\ seen' = [seen EXCEPT ![t] = IF op[t].type = "get_value" THEN Append(@, ret[t].opt) ELSE @]
  /\ flag' = [flag EXCEPT ![t] = NullPtr]
  /\ ret' = [ret EXCEPT ![t] = NoRet]
  /\ pc' = [pc EXCEPT ![t] = Entry(o.type)]
  /\ UNCHANGED << flags_, heap, rmutex, fmutex, ncalls, written, firstDef, lastCall,
               lastUpdate, sent >>

PairNext ==
  \E t \in PairThreads :
    \/ \E o \in NextCalls(t) : PairCall(t, o)
    \/ DefineLock(t) \/ DefineFind(t) \/ DefineInsert(t)
    \/ GetLock(t) \/ GetCS(t)
    \/ UpdateLock(t) \/ UpdateStore(t) \/ UpdateIndex(t)
    \/ ValueLock(t) \/ ValueCS(t)

PairSpec == PairInit /\ [][PairNext]_vars

\* thread t is inside a read or an update of the flag named n
OnFlag(t, n) ==
  pc[t] # "idle" /\ op[t].type \in {"update", "get_value", "is_enabled"} /\ op[t].name = n

\* thread t holds a lock that the next step of thread u needs
Blocks(t, u) ==
  \/ pc[u] = "get_lock" /\ rmutex.w = t
  \/ pc[u] = "value_lock" /\ fmutex[flag[u]].w = t
  \/ pc[u] = "update_lock" /\ (fmutex[flag[u]].w = t \/ t \in fmutex[flag[u]].r)

\* C17: a thread that is inside a read or update of one flag (waiting for a
\* lock or holding one) holds no lock that a read or update of another flag
\* by another thread needs; and a thread reading or updating a flag while
\* every other running thread is on other flags can take its next step.
C17_DifferentFlagsIndependent ==
  \A u \in DOMAIN pc :
    \A n \in Names :
      OnFlag(u, n) =>
        /\ \A t \in DOMAIN pc \ {u}, m \in Names \ {n} : OnFlag(t, m) => ~Blocks(t, u)
        /\ (\A t \in DOMAIN pc \ {u} : pc[t] = "idle" \/ \E m \in Names \ {n} : OnFlag(t, m))
              => ENABLED Proceed(u)

\* the writer is inside Flag::update of one flag, a reader of that flag
\* waits for its lock, and another reader is inside Flag::value of the
\* other flag
C17_Witness ==
  \E t, u, w \in DOMAIN pc :
    /\ pc[t] = "update_store" /\ pc[w] = "value_lock" /\ pc[u] = "value_cs"
    /\ flag[w] = flag[t] /\ flag[u] # flag[t]
    /\ op[w].name = op[t].name /\ op[u].name # op[t].name

\* thread t is inside the map critical section of define
InDefine(t) == pc[t] \in {"define_find", "define_insert"}

\* thread t is inside the map critical section of get (also as the lookup
\* half of update, is_enabled and get_value), exists or get_all
InMapRead(t) == pc[t] \in {"get_cs", "exists_cs", "get_all_cs"}

\* C18: while a define is inside its map critical section it owns the map
\* lock exclusively, and no other thread is inside a map critical section,
\* neither of a define nor of get, exists, get_all or the lookup of update;
\* a thread inside a read critical section owns the lock shared.
C18_MapLockDiscipline ==
  \A t \in Threads :
    /\ InDefine(t) =>
          /\ rmutex = [w |-> t, r |-> {}]
          /\ \A u \in Threads \ {t} : ~InDefine(u) /\ ~InMapRead(u)
    /\ InMapRead(t) => (rmutex.w = NoThread /\ t \in rmutex.r)

\* a define is about to insert while the lookup of an update of another
\* thread waits for the map lock
C18_Witness ==
  \E t, u \in Threads :
    /\ pc[t] = "define_insert" /\ rmutex.w = t
    /\ pc[u] = "get_lock" /\ op[u].type = "update"
    /\ ~ENABLED GetLock(u)

\* map readers are inside their critical sections at the same time: a get
\* next to a get_all
C18_SharedMapReaders ==
  \E t, u \in Threads :
    /\ t # u /\ pc[t] = "get_cs" /\ pc[u] = "get_all_cs"
    /\ rmutex.r = {t, u}

\* reader t has finished its read of a and then its read of b
ReadBoth(t) == t # Writer /\ pc[t] = "idle" /\ op[t] = ReaderScript[2] /\ Len(seen[t]) = 1

\* what reader t got: the flag values its two results stand for
Observation(t) ==
  << FlagValue(seen[t][1].kind, seen[t][1].v), FlagValue(ret[t].opt.kind, ret[t].opt.v) >>

\* C19: a reader that read a and then b, next to the writer updating a and
\* then b, got for each flag its old or its new value and nothing else; no
\* combination of the two is excluded (C19_Witness: all four occur).
C19_AnyCombination ==
  \A t \in PairThreads :
    ReadBoth(t) =>
      /\ seen[t][1].has /\ ret[t].opt.has
      /\ Observation(t) \in {OldA, NewA} \X {OldB, NewB}

\* four readers of one run got the four combinations: (old a, old b),
\* (new a, old b), (old a, new b) and (new a, new b)
C19_Witness ==
  { Observation(t) : t \in { u \in PairThreads : ReadBoth(u) } } = {OldA, NewA} \X {OldB, NewB}

\* C20: every step of a define of a name that is in the map leaves the map
\* and every Flag object (value, description, name) as they are, and the
\* define returns the handle stored under the name; so a value set by an
\* earlier update stays, whatever default the define was called with.
C20_DefineExistingNoChange ==
  [][\A t \in Threads :
       (Steps(t) /\ op[t].type = "define" /\ op[t].name \in DOMAIN flags_) =>
          /\ flags_' = flags_
          /\ heap' = heap
          /\ lastUpdate' = lastUpdate
          /\ pc[t] = "define_find" =>
                (pc'[t] = "idle" /\ ret'[t].ptr = flags_[op[t].name])]_vars

\* a define with another default and another description has returned the
\* handle of a flag that holds the value of an earlier update, which is
\* neither the define's default nor the default of the first define
C20_Witness ==
  \E t \in Threads :
    /\ pc[t] = "idle" /\ op[t].type = "define"
    /\ op[t].name \in DOMAIN flags_
    /\ ret[t].ptr = flags_[op[t].name]
    /\ LET f == heap[flags_[op[t].name]]
       IN  /\ lastUpdate[flags_[op[t].name]] = f.value
           /\ f.value # op[t].value
           /\ f.value # firstDef[op[t].name].value
           /\ firstDef[op[t].name].value # op[t].value
           /\ f.description # op[t].desc

\* C21: no step takes a name out of the map or changes the handle stored
\* under a name; a define that returns leaves its name in the map with the
\* handle it returns; and for a name that is in the map exists returns true,
\* get returns the stored handle and update goes on to Flag::update and
\* returns true.
C21_NeverRemoved ==
  [][/\ \A n \in DOMAIN flags_ : n \in DOMAIN flags_' /\ flags_'[n] = flags_[n]
     /\ \A t \in Threads :
          /\ Returns(t, "define") =>
                (op[t].name \in DOMAIN flags_' /\ flags_'[op[t].name] = ret'[t].ptr)
          /\ (Steps(t) /\ op[t].name \in DOMAIN flags_) =>
                /\ (pc[t] = "exists_cs") => ret'[t].bool = TRUE
                /\ (pc[t] = "get_cs" /\ op[t].type = "get") => ret'[t].ptr = flags_[op[t].name]
                /\ (pc[t] = "get_cs" /\ op[t].type = "update") => pc'[t] = "update_lock"
                /\ (pc[t] = "update_index") => ret'[t].bool = TRUE]_vars

\* a name is still there after a later define of another name: one thread
\* got true from exists for it, the other has since defined the second name
C21_Witness ==
  \E t, u \in Threads :
    /\ ncalls = 3 /\ pc[t] = "idle" /\ pc[u] = "idle"
    /\ op[t].type = "define" /\ op[u].type = "exists" /\ ret[u].bool
    /\ op[u].name # op[t].name
    /\ DOMAIN flags_ = {op[t].name, op[u].name}
    /\ flags_[op[u].name] < flags_[op[t].name]
    /\ ret[t].ptr = flags_[op[t].name]

\* the run so far consists of two calls, define(n, d) by t and update(n, v)
\* by u, in any interleaving, and both have returned
RaceOver(t, u) ==
  /\ t # u /\ ncalls = 2
  /\ pc[t] = "idle" /\ pc[u] = "idle"
  /\ op[t].type = "define" /\ op[u].type = "update"
  /\ op[t].name = op[u].name

\* C22: when define(n, d), which creates n, and update(n, v) are the only
\* calls and have both returned, either update returned false and n holds d,
\* or update returned true and n holds v.
C22_UpdateRacingDefine ==
  \A t, u \in Threads :
    RaceOver(t, u) =>
      /\ op[t].name \in DOMAIN flags_
      /\ LET now == heap[flags_[op[t].name]].value
         IN  \/ ret[u].bool = FALSE /\ now = op[t].value
             \/ ret[u].bool = TRUE /\ now = op[u].value

\* the update lost the race: it returned false and the flag holds the
\* default of the define, which differs from the update's value
C22_Witness ==
  \E t, u \in Threads :
    /\ RaceOver(t, u)
    /\ ret[u].bool = FALSE
    /\ heap[flags_[op[t].name]].value = op[t].value
    /\ op[t].value # op[u].value

\* the update won the race: it returned true and the flag holds its value
C22_UpdateWon ==
  \E t, u \in Threads :
    /\ RaceOver(t, u)
    /\ ret[u].bool = TRUE
    /\ heap[flags_[op[t].name]].value = op[u].value
    /\ op[t].value # op[u].value

\* C23: no step of an update(n, v) changes the key set or a stored handle,
\* adds or drops a Flag object, changes the name or the description of any
\* Flag, or changes the value of a Flag other than the one stored under n.
C23_UpdateFrame ==
  [][\A t \in Threads :
       (Steps(t) /\ op[t].type = "update") =>
          /\ flags_' = flags_
          /\ DOMAIN heap' = DOMAIN heap
          /\ \A f \in DOMAIN heap :
                /\ heap'[f].name = heap[f].name
                /\ heap'[f].description = heap[f].description
                /\ heap'[f].value # heap[f].value =>
                      (op[t].name \in DOMAIN flags_ /\ f = flags_[op[t].name])]_vars

\* an update of one of two flags has returned true: that flag holds the
\* update's value, not its default; the other flag holds its default
C23_Witness ==
  \E t \in Threads :
    /\ pc[t] = "idle" /\ op[t].type = "update" /\ ret[t].bool
    /\ DOMAIN flags_ = Names
    /\ heap[flags_[op[t].name]].value = op[t].value
    /\ op[t].value # firstDef[op[t].name].value
    /\ \A n \in Names \ {op[t].name} :
          /\ heap[flags_[n]].value = firstDef[n].value
          /\ heap[flags_[n]].value.v # op[t].value.v

====
